---------------------------- MODULE Spec2Model ----------------------------
(***************************************************************************)
(* receipt-analyzer (src/src/main.rs): text extraction from OCR receipt    *)
(* lines (parse_receipt_text and its helpers), fuzzy aggregation           *)
(* (aggregate_products), the directory loop (process_receipt_directory)    *)
(* and name normalisation (clean_product_name).                            *)
(*                                                                         *)
(* A string is a sequence of characters; a character is a one-character    *)
(* TLA+ string.  "U+0663" stands for ARABIC-INDIC DIGIT THREE (a decimal   *)
(* digit that is not ASCII) and "U+00A0" for NO-BREAK SPACE.  Prices are   *)
(* held in hundredths (cents).                                             *)
(***************************************************************************)
EXTENDS Integers, Sequences, FiniteSets, TLC

VARIABLES
    text, lineNo, products, last, parsePc,          \* parse_receipt_text
    rawName, cleaned,                               \* clean_product_name
    records, aggIdx, aggregated, assigned, sorted, aggPc,   \* aggregate_products
    entries, entryIdx, all_products, diagnostics, dirPc     \* process_receipt_directory

parseVars == <<text, lineNo, products, last, parsePc>>
nameVars  == <<rawName, cleaned>>
aggVars   == <<records, aggIdx, aggregated, assigned, sorted, aggPc>>
dirVars   == <<entries, entryIdx, all_products, diagnostics, dirPc>>
vars      == <<parseVars, nameVars, aggVars, dirVars>>

-----------------------------------------------------------------------------
(* Characters                                                              *)

UpperSeq == <<"A", "B", "C", "D", "E", "F", "G", "H", "I", "J", "K", "L", "M", "N", "O", "P", "Q", "R", "S", "T", "U", "V", "W", "X", "Y", "Z", "Ä", "Ö", "Ü">>
LowerSeq == <<"a", "b", "c", "d", "e", "f", "g", "h", "i", "j", "k", "l", "m", "n", "o", "p", "q", "r", "s", "t", "u", "v", "w", "x", "y", "z", "ä", "ö", "ü">>

AsciiUpper    == {UpperSeq[i] : i \in 1..26}
AsciiLower    == {LowerSeq[i] : i \in 1..26}
AsciiDigit    == {"0", "1", "2", "3", "4", "5", "6", "7", "8", "9"}
GermanLetter  == {"Ä", "Ö", "Ü", "ä", "ö", "ü", "ß"}
\* Unicode decimal digits (regex \d): the ASCII digits and the others
UnicodeDigit  == AsciiDigit \cup {"U+0663"}
\* Unicode White_Space (regex \s, char::is_whitespace)
WhiteSpace    == {" ", "\t", "U+00A0"}

IsNumeric(c)      == c \in UnicodeDigit
IsWhitespace(c)   == c \in WhiteSpace
IsAlphanumeric(c) == c \in AsciiUpper \cup AsciiLower \cup GermanLetter \cup UnicodeDigit

\* char::to_lowercase
ToLowerChar(c) ==
    IF \E i \in 1..Len(UpperSeq) : UpperSeq[i] = c
    THEN LowerSeq[CHOOSE i \in 1..Len(UpperSeq) : UpperSeq[i] = c]
    ELSE c

\* number of bytes of the character in UTF-8 (str::len counts bytes)
Utf8Width(c) ==
    IF c \in AsciiUpper \cup AsciiLower \cup AsciiDigit THEN 1
    ELSE IF c \in GermanLetter \cup {"U+0663", "U+00A0", "°"} THEN 2
    ELSE IF c = "€" THEN 3
    ELSE 1

-----------------------------------------------------------------------------
(* Strings                                                                 *)

Min(A) == CHOOSE x \in A : \A y \in A : x <= y
Max(A) == CHOOSE x \in A : \A y \in A : x >= y

RECURSIVE Utf8Len(_)
Utf8Len(s) == IF Len(s) = 0 THEN 0 ELSE Utf8Width(Head(s)) + Utf8Len(Tail(s))

\* str::trim
Trim(s) ==
    LET keep == {i \in 1..Len(s) : ~IsWhitespace(s[i])}
    IN  IF keep = {} THEN <<>> ELSE SubSeq(s, Min(keep), Max(keep))

\* str::to_lowercase
ToLowercase(s) == [i \in 1..Len(s) |-> ToLowerChar(s[i])]

\* str::contains, str::starts_with
Contains(s, sub) ==
    \E i \in 0..(Len(s) - Len(sub)) : SubSeq(s, i + 1, i + Len(sub)) = sub
StartsWith(s, pre) ==
    Len(pre) <= Len(s) /\ SubSeq(s, 1, Len(pre)) = pre

\* str::split_whitespace
RECURSIVE SplitWhitespace(_)
SplitWhitespace(s) ==
    LET keep == {i \in 1..Len(s) : ~IsWhitespace(s[i])}
    IN  IF keep = {} THEN <<>>
        ELSE LET from == Min(keep)
                 gaps == {i \in from..Len(s) : IsWhitespace(s[i])}
                 to   == IF gaps = {} THEN Len(s) ELSE Min(gaps) - 1
             IN  <<SubSeq(s, from, to)>> \o SplitWhitespace(SubSeq(s, to + 1, Len(s)))

\* [&str]::join
RECURSIVE Join(_, _)
Join(words, sep) ==
    IF Len(words) = 0 THEN <<>>
    ELSE IF Len(words) = 1 THEN words[1]
    ELSE words[1] \o sep \o Join(Tail(words), sep)

-----------------------------------------------------------------------------
(* clean_product_name                                                      *)

KeptByFilter(c) ==
    IsAlphanumeric(c) \/ IsWhitespace(c) \/ c \in {"ä", "ö", "ü", "ß", "Ä", "Ö", "Ü"}

\* the name filtered but its whitespace not collapsed
clean_product_name_no_collapse(name) ==
    SelectSeq(ToLowercase(Trim(name)), KeptByFilter)

clean_product_name(name) ==
    Join(SplitWhitespace(SelectSeq(ToLowercase(Trim(name)), KeptByFilter)), <<" ">>)

-----------------------------------------------------------------------------
(* parse_european_price                                                    *)

\* str::parse::<f64> restricted to the texts made of digits and separators:
\* ASCII digits with at most one '.', at least one digit.  The value is
\* returned in cents; the price patterns capture two decimals or none, and
\* the lines drawn keep the whole part within a few digits.
RECURSIVE DigitsValue(_)
DigitsValue(s) ==
    IF Len(s) = 0 THEN 0
    ELSE 10 * DigitsValue(SubSeq(s, 1, Len(s) - 1))
         + (CHOOSE d \in 0..9 : ToString(d) = s[Len(s)])

ParseF64(s) ==
    LET dots == {i \in 1..Len(s) : s[i] = "."}
        whole == IF dots = {} THEN s ELSE SubSeq(s, 1, Min(dots) - 1)
        frac  == IF dots = {} THEN <<>> ELSE SubSeq(s, Min(dots) + 1, Len(s))
        ok == /\ \A i \in 1..Len(s) : s[i] \in AsciiDigit \cup {"."}
              /\ Cardinality(dots) <= 1
              /\ Len(whole) + Len(frac) >= 1
              /\ Len(frac) <= 2
    IN  IF ~ok THEN [ok |-> FALSE, cents |-> 0]
        ELSE [ok |-> TRUE,
              cents |-> 100 * DigitsValue(whole)
                        + (IF Len(frac) = 1 THEN 10 ELSE 1) * DigitsValue(frac)]

parse_european_price(price_str) ==
    IF \E i \in 1..Len(price_str) : price_str[i] = ","
    THEN ParseF64([i \in 1..Len(price_str) |->
                     IF price_str[i] = "," THEN "." ELSE price_str[i]])
    ELSE ParseF64(price_str)

-----------------------------------------------------------------------------
(* should_skip_line                                                        *)

SkipContains ==
    { <<"t", "o", "t", "a", "l">>, <<"s", "u", "b", "t", "o", "t", "a", "l">>, <<"s", "u", "m", "m", "e">>, <<"n", "e", "t", "t", "o">>, <<"b", "r", "u", "t", "t", "o">>,
      <<"m", "w", "s", "t">>, <<"t", "a", "x">>, <<"s", "t", "e", "u", "e", "r">>, <<"c", "h", "a", "n", "g", "e">>, <<"w", "e", "c", "h", "s", "e", "l", "g", "e", "l", "d">>,
      <<"r", "e", "c", "e", "i", "p", "t">>, <<"q", "u", "i", "t", "t", "u", "n", "g">>, <<"r", "e", "c", "h", "n", "u", "n", "g">>, <<"d", "a", "t", "u", "m">>, <<"d", "a", "t", "e">>,
      <<"t", "i", "m", "e">>, <<"u", "h", "r", "z", "e", "i", "t">>, <<"t", "e", "l", ":">>, <<"t", "e", "l", "e", "f", "o", "n">>, <<"a", "d", "r", "e", "s", "s", "e">>,
      <<"a", "d", "d", "r", "e", "s", "s">>, <<"v", "i", "e", "l", "e", "n", " ", "d", "a", "n", "k">>, <<"d", "a", "n", "k", "e">>, <<"n", "r", ".">>, <<"n", "u", "m", "m", "e", "r">>,
      <<"c", "h", "e", "c", "k", ":">>, <<"a", "u", "t", "h", "o", "r", "i", "z", "a", "t", "i", "o", "n">>, <<"a", "p", "p", "r", "o", "v", "a", "l">>, <<"p", "a", "y", "m", "e", "n", "t">>,
      <<"c", "a", "r", "d">>, <<"g", "r", "a", "t", "u", "i", "t", "y">>, <<"s", "i", "g", "n", "a", "t", "u", "r", "e">>, <<"c", "u", "s", "t", "o", "m", "e", "r", " ", "c", "o", "p", "y">>,
      <<"t", "h", "a", "n", "k", "s">>, <<"i", "n", "k", "l">>, <<"g", "e", "g", "e", "b", "e", "n">>, <<"e", "u", "r", "o", "0">>, <<"e", "u", "r", "0">>,
      <<"c", "u", "s", "t", ":">>, <<"a", "l", "b", "a", "n", "y">>, <<"s", "t", "r", "e", "e", "t">>, <<"n", "y", "c">>, <<"f", "o", "o", "d", " ", "c", "l", "u", "b">>,
      <<"%">> }

SkipStartsWith == { <<"#">>, <<"<", "<", "<">>, <<"8", "8", "8">> }

\* the vocabulary compared with the line as written
should_skip_line_case_sensitive(line) ==
    \/ \E tok \in SkipContains : Contains(line, tok)
    \/ \E pre \in SkipStartsWith : StartsWith(line, pre)
    \/ \A i \in 1..Len(line) : IsNumeric(line[i]) \/ IsWhitespace(line[i])

should_skip_line(line) ==
    LET line_lower == ToLowercase(line)
    IN  \/ \E tok \in SkipContains : Contains(line_lower, tok)
        \/ \E pre \in SkipStartsWith : StartsWith(line_lower, pre)
        \/ \A i \in 1..Len(line) : IsNumeric(line[i]) \/ IsWhitespace(line[i])

-----------------------------------------------------------------------------
(* Regex::captures: leftmost-first matching.                               *)
(*                                                                         *)
(* A partial match is [k, e, c]: k the sequence of decisions taken so far  *)
(* (smaller = tried earlier by the matcher: leftmost start, first          *)
(* alternative, longest repetition, optional group present), e the         *)
(* position of the next character, c the spans <<from, to>> of the capture *)
(* groups.  captures() returns the match with the least k.                 *)

At(l, p) == IF p >= 1 /\ p <= Len(l) THEN l[p] ELSE ""

\* ends of c+ started at p, for a character class
RunEnds(l, p, InClass(_)) ==
    {e \in (p + 1)..(Len(l) + 1) : \A i \in p..(e - 1) : InClass(l[i])}

IsSep(c)   == c \in {",", "."}
IsDigit(c) == c \in UnicodeDigit

\* [A-Za-zÄÖÜäöüß]
IsDeLetter(c) == c \in AsciiUpper \cup AsciiLower \cup GermanLetter
\* [A-Za-zÄÖÜäöüß0-9\s\-.]
IsDeNameChar(c) == IsDeLetter(c) \/ c \in AsciiDigit \/ IsWhitespace(c) \/ c \in {"-", "."}
\* [A-Za-zÄÖÜäöüß0-9\s\-.*]
IsDeNameCharStar(c) == IsDeNameChar(c) \/ c = "*"
\* [A-Z]
IsCapital(c) == c \in AsciiUpper
\* [A-Z0-9\s\-.]
IsCapsNameChar(c) == c \in AsciiUpper \cup AsciiDigit \/ IsWhitespace(c) \/ c \in {"-", "."}

\* \d+
RxDigits(l, p) == {[k |-> <<0 - e>>, e |-> e] : e \in RunEnds(l, p, IsDigit)}
\* \s+
RxSpaces(l, p) == {[k |-> <<0 - e>>, e |-> e] : e \in RunEnds(l, p, IsWhitespace)}
\* (\d+|[IilL])
RxQty(l, p) ==
    {[k |-> <<0, 0 - e>>, e |-> e] : e \in RunEnds(l, p, IsDigit)}
    \cup {[k |-> <<1, 0 - (p + 1)>>, e |-> p + 1] : x \in {At(l, p)} \cap {"I", "i", "l", "L"}}
\* x?
RxOptX(l, p) ==
    {[k |-> <<0>>, e |-> p + 1] : x \in {At(l, p)} \cap {"x"}}
    \cup {[k |-> <<1>>, e |-> p]}
\* °?
RxOptDegree(l, p) ==
    {[k |-> <<0>>, e |-> p + 1] : x \in {At(l, p)} \cap {"°"}}
    \cup {[k |-> <<1>>, e |-> p]}
\* First[Rest]{lo,hi}
RxName(l, p, First(_), Rest(_), lo, hi) ==
    {[k |-> <<0 - e>>, e |-> e] :
        e \in {e \in (p + 1 + lo)..(p + 1 + hi) :
                 /\ e <= Len(l) + 1
                 /\ First(l[p])
                 /\ \A i \in (p + 1)..(e - 1) : Rest(l[i])}}
\* \d+[,.]\d{2}
RxPrice(l, p) ==
    {[k |-> <<0 - q>>, e |-> q + 3] :
        q \in {q \in RunEnds(l, p, IsDigit) :
                 IsSep(At(l, q)) /\ IsDigit(At(l, q + 1)) /\ IsDigit(At(l, q + 2))}}
\* \d+[,.]?\d{2}
RxPriceOptSep(l, p) ==
    {[k |-> <<0 - q, 0>>, e |-> q + 3] :
        q \in {q \in RunEnds(l, p, IsDigit) :
                 IsSep(At(l, q)) /\ IsDigit(At(l, q + 1)) /\ IsDigit(At(l, q + 2))}}
    \cup
    {[k |-> <<0 - q, 1>>, e |-> q + 2] :
        q \in {q \in RunEnds(l, p, IsDigit) :
                 IsDigit(At(l, q)) /\ IsDigit(At(l, q + 1))}}
\* €
RxEuro(l, p) == {[k |-> <<>>, e |-> p + 1] : x \in {At(l, p)} \cap {"€"}}
\* (?:a\s+)?
RxOptA(l, p) ==
    {[k |-> <<0, 0 - e>>, e |-> e] :
        e \in IF At(l, p) = "a" THEN RunEnds(l, p + 1, IsWhitespace) ELSE {}}
    \cup {[k |-> <<1, 0>>, e |-> p]}
\* (?:\d+[,.]\d{2}\s+)?
RxOptUnit(l, p) ==
    UNION {{[k |-> <<0>> \o u.k \o <<0 - e>>, e |-> e] :
               e \in RunEnds(l, u.e, IsWhitespace)} : u \in RxPrice(l, p)}
    \cup {[k |-> <<1, 0, 0>>, e |-> p]}

\* the partial matches M followed by the sub-expression F
Then(M, F(_)) ==
    UNION {{[k |-> m.k \o x.k, e |-> x.e, c |-> m.c] : x \in F(m.e)} : m \in M}
\* the same, F being a capture group
ThenGroup(M, F(_)) ==
    UNION {{[k |-> m.k \o x.k, e |-> x.e, c |-> Append(m.c, <<m.e, x.e - 1>>)] :
               x \in F(m.e)} : m \in M}
\* an unanchored search may start at any position
Starts(l) == {[k |-> <<s>>, e |-> s, c |-> <<>>] : s \in 1..(Len(l) + 1)}

RECURSIVE LexLess(_, _)
LexLess(a, b) ==
    /\ Len(a) > 0
    /\ Len(b) > 0
    /\ \/ Head(a) < Head(b)
       \/ Head(a) = Head(b) /\ LexLess(Tail(a), Tail(b))

NoMatch == [matched |-> FALSE, groups |-> <<>>]

\* Option<Captures>: the text of each group of the first match
Captures(l, M) ==
    IF M = {} THEN NoMatch
    ELSE LET best == CHOOSE m \in M : \A n \in M : n.k = m.k \/ LexLess(m.k, n.k)
         IN  [matched |-> TRUE,
              groups |-> [g \in 1..Len(best.c) |-> SubSeq(l, best.c[g][1], best.c[g][2])]]

\* (\d+|[IilL])x?\s+([A-Za-zÄÖÜäöüß][A-Za-zÄÖÜäöüß0-9\s\-.]{2,40})\s+(?:a\s+)?(?:\d+[,.]\d{2}\s+)?(\d+[,.]\d{2})
pattern_qty_total(l) ==
    LET m1 == ThenGroup(Starts(l), LAMBDA p : RxQty(l, p))
        m2 == Then(m1, LAMBDA p : RxOptX(l, p))
        m3 == Then(m2, LAMBDA p : RxSpaces(l, p))
        m4 == ThenGroup(m3, LAMBDA p : RxName(l, p, IsDeLetter, IsDeNameChar, 2, 40))
        m5 == Then(m4, LAMBDA p : RxSpaces(l, p))
        m6 == Then(m5, LAMBDA p : RxOptA(l, p))
        m7 == Then(m6, LAMBDA p : RxOptUnit(l, p))
        m8 == ThenGroup(m7, LAMBDA p : RxPrice(l, p))
    IN  Captures(l, m8)

\* (\d+)°?\s+([A-Z][A-Z0-9\s\-.]{2,30})\s+€(\d+[,.]?\d{2})
pattern_euro(l) ==
    LET m1 == ThenGroup(Starts(l), LAMBDA p : RxDigits(l, p))
        m2 == Then(m1, LAMBDA p : RxOptDegree(l, p))
        m3 == Then(m2, LAMBDA p : RxSpaces(l, p))
        m4 == ThenGroup(m3, LAMBDA p : RxName(l, p, IsCapital, IsCapsNameChar, 2, 30))
        m5 == Then(m4, LAMBDA p : RxSpaces(l, p))
        m6 == Then(m5, LAMBDA p : RxEuro(l, p))
        m7 == ThenGroup(m6, LAMBDA p : RxPriceOptSep(l, p))
    IN  Captures(l, m7)

\* ([A-Z][A-Z0-9\s\-.]{2,30})\s+€(\d+[,.]?\d{2})
pattern_euro_simple(l) ==
    LET m1 == ThenGroup(Starts(l), LAMBDA p : RxName(l, p, IsCapital, IsCapsNameChar, 2, 30))
        m2 == Then(m1, LAMBDA p : RxSpaces(l, p))
        m3 == Then(m2, LAMBDA p : RxEuro(l, p))
        m4 == ThenGroup(m3, LAMBDA p : RxPriceOptSep(l, p))
    IN  Captures(l, m4)

\* (\d+|[IilL])x?\s+([A-Za-zÄÖÜäöüß][A-Za-zÄÖÜäöüß0-9\s\-.*]{2,30})\s+(\d+[,.]\d{2})
pattern_de_simple(l) ==
    LET m1 == ThenGroup(Starts(l), LAMBDA p : RxQty(l, p))
        m2 == Then(m1, LAMBDA p : RxOptX(l, p))
        m3 == Then(m2, LAMBDA p : RxSpaces(l, p))
        m4 == ThenGroup(m3, LAMBDA p : RxName(l, p, IsDeLetter, IsDeNameCharStar, 2, 30))
        m5 == Then(m4, LAMBDA p : RxSpaces(l, p))
        m6 == ThenGroup(m5, LAMBDA p : RxPrice(l, p))
    IN  Captures(l, m6)

\* ([A-Za-zÄÖÜäöüß][A-Za-zÄÖÜäöüß0-9\s\-.]{2,30})\s+(\d+[,.]\d{2})
pattern_fallback(l) ==
    LET m1 == ThenGroup(Starts(l), LAMBDA p : RxName(l, p, IsDeLetter, IsDeNameChar, 2, 30))
        m2 == Then(m1, LAMBDA p : RxSpaces(l, p))
        m3 == ThenGroup(m2, LAMBDA p : RxPrice(l, p))
    IN  Captures(l, m3)

-----------------------------------------------------------------------------
(* Bounds                                                                  *)

MaxLines   == 2      \* lines of a generated OCR text
MaxNameLen == 3      \* characters of a raw name given to clean_product_name
MaxRecords == 3      \* Records given to aggregate_products
MaxEntries == 2      \* directory entries walked

-----------------------------------------------------------------------------
(* parse_receipt_text                                                      *)

\* OCR lines: receipt lines of the formats the patterns are written for,
\* boilerplate, and lines with the defects OCR output has.
LineCorpus ==
    { <<"4", "x", " ", "L", "ö", "w", "e", "n", "b", "r", "ä", "u", " ", "O", "r", "i", "g", "i", "n", "a", "l", " ", "a", " ", "3", ",", "0", "0", " ", "1", "2", ",", "0", "0">>,
      <<"3", " ", "B", "i", "e", "r", " ", "a", " ", "2", ",", "5", "0", " ", "7", ",", "5", "0">>,
      <<"1", "x", " ", "C", "h", "e", "e", "s", "e", "b", "u", "r", "g", "e", "r", "*", " ", "1", ",", "1", "9">>,
      <<"2", "x", " ", "P", "o", "m", "m", "e", "s", " ", "2", ",", "5", "0">>,
      <<" ", " ", "2", "x", " ", "P", "o", "m", "m", "e", "s", " ", "2", ",", "5", "0", " ">>,
      <<"I", "x", " ", "C", "o", "l", "a", " ", "2", ",", "0", "0">>,
      <<"1", "x", " ", "K", "ä", "s", "e", "-", "B", "r", "o", "t", " ", "2", ",", "4", "9">>,
      <<"1", " ", "A", " ", " ", " ", "1", ",", "0", "0">>,
      <<"1", " ", "A", "-", "-", " ", "1", ",", "0", "0">>,
      <<"1", " ", "C", "o", "l", "a", " ", "0", ",", "0", "0">>,
      <<"1", " ", "C", "o", "l", "a", " ", "0", ",", "0", "1">>,
      <<"2", " ", "C", "o", "l", "a", " ", "9", "9", "9", ",", "9", "9">>,
      <<"1", " ", "C", "o", "l", "a", " ", "1", "0", "0", "0", ",", "0", "0">>,
      <<"1", " ", "W", "e", "i", "n", " ", "1", "5", "0", "0", ",", "0", "0">>,
      <<"1", " ", "C", "o", "l", "a", " ", "U+0663", ",", "0", "0">>,
      <<"2", " ", "W", "e", "i", "n", "*", " ", "5", ",", "0", "0", " ", "1", " ", "C", "o", "l", "a", " ", "0", ",", "0", "0">>,
      <<"1", " ", "T", "e", "e", "*", " ", "0", ",", "0", "0">>,
      <<"1", " ", "C", "H", "I", "C", "K", "E", "N", " ", "H", "E", "A", "L", "S", " ", "€", "9", ".", "9", "9">>,
      <<"2", "°", " ", "P", "I", "Z", "Z", "A", " ", "€", "2", "5", ".", "9", "8">>,
      <<"2", " ", "S", "T", "E", "A", "K", " ", "€", "1", "5", "0", "0", ".", "0", "0">>,
      <<"E", "X", "T", "R", "A", " ", "S", "P", "Y", "C", "I", "E", "S", " ", "€", "0", ".", "0", "0">>,
      <<"E", "X", "T", "R", "A", " ", "C", "H", "E", "E", "S", "E", " ", "€", "1", ".", "5", "0">>,
      <<"P", "I", "Z", "Z", "A", " ", "€", "2", "5", "9", "8">>,
      <<"K", "a", "f", "f", "e", "e", " ", "2", ",", "2", "0">>,
      <<"K", "a", "f", "f", "e", "e", "\t", "2", ".", "2", "0">>,
      <<"Ö", "l", " ", " ", "1", ",", "0", "0">>,
      <<"A", "b", " ", " ", "1", ",", "0", "0">>,
      <<"S", "u", "m", "m", "e", " ", "3", ",", "6", "9">>,
      <<"M", "w", "S", "t", " ", "1", "9", "%">>,
      <<"R", "a", "b", "a", "t", "t", " ", "1", "0", "%", " ", "1", ",", "0", "0">>,
      <<"1", "2", "3", "4", "5">>,
      <<"#", "4", " ", "C", "o", "l", "a", " ", "2", ",", "0", "0">>,
      <<"H", "e", "l", "l", "o", " ", "W", "o", "r", "l", "d">>,
      <<"Ö", "l", "1">>,
      <<"a", "b", "c">>,
      <<>> }

RECURSIVE TextsOfLen(_)
TextsOfLen(n) ==
    IF n = 0 THEN {<<>>}
    ELSE {Append(t, l) : t \in TextsOfLen(n - 1), l \in LineCorpus}

\* the end-to-end block of three lines
ExampleBlock == << <<"1", "x", " ", "C", "h", "e", "e", "s", "e", "b", "u", "r", "g", "e", "r", "*", " ", "1", ",", "1", "9">>, <<"2", "x", " ", "P", "o", "m", "m", "e", "s", " ", "2", ",", "5", "0">>, <<"S", "u", "m", "m", "e", " ", "3", ",", "6", "9">> >>

Texts == UNION {TextsOfLen(n) : n \in 0..MaxLines} \cup {ExampleBlock}

\* line.is_empty() || line.len() < 4
TooShort(line) == Len(line) = 0 \/ Utf8Len(line) < 4

\* What the loop body computes from a trimmed line: the two tests that skip
\* it and the result of each of the five patterns (compiled at lines
\* 118-130).  Tabulated once for the lines that occur.
LineTable ==
    [l \in {Trim(x) : x \in LineCorpus} |->
        [short |-> TooShort(l),
         noise |-> should_skip_line(l),
         patterns |-> << pattern_qty_total(l), pattern_euro(l), pattern_euro_simple(l),
                         pattern_de_simple(l), pattern_fallback(l) >>]]

Pattern(k, line) == LineTable[line].patterns[k]

CurrentLine == Trim(text[lineNo])

Reaches(k) ==
    /\ parsePc = "lines"
    /\ lineNo <= Len(text)
    /\ ~LineTable[CurrentLine].short
    /\ ~LineTable[CurrentLine].noise
    /\ \A j \in 1..(k - 1) : ~Pattern(j, CurrentLine).matched

Product(name, price) == [name |-> clean_product_name(name), price |-> price]

\* last: what the step did with the line (history, not program state):
\* pattern is the number of the pattern whose branch ran, 0 when none ran
Step(branch, pushed) ==
    /\ products' = products \o pushed
    /\ last' = [pattern |-> branch, pushed |-> Len(pushed)]
    /\ lineNo' = lineNo + 1
    /\ UNCHANGED <<text, parsePc>>

SkipShortLine ==
    /\ parsePc = "lines"
    /\ lineNo <= Len(text)
    /\ LineTable[CurrentLine].short
    /\ Step(0, <<>>)
    /\ UNCHANGED <<nameVars, aggVars, dirVars>>

SkipNoiseLine ==
    /\ parsePc = "lines"
    /\ lineNo <= Len(text)
    /\ ~LineTable[CurrentLine].short
    /\ LineTable[CurrentLine].noise
    /\ Step(0, <<>>)
    /\ UNCHANGED <<nameVars, aggVars, dirVars>>

\* the first branch without the upper limit of the price
TakeQtyTotal_NoUpperLimit ==
    /\ Reaches(1)
    /\ Pattern(1, CurrentLine).matched
    /\ LET g == Pattern(1, CurrentLine).groups
           price == parse_european_price(g[3])
       IN  IF price.ok /\ price.cents > 0
           THEN Step(1, <<Product(g[2], price.cents)>>)
           ELSE Step(1, <<>>)
    /\ UNCHANGED <<nameVars, aggVars, dirVars>>

TakeQtyTotal ==
    /\ Reaches(1)
    /\ Pattern(1, CurrentLine).matched
    /\ LET g == Pattern(1, CurrentLine).groups
           price == parse_european_price(g[3])
       IN  IF price.ok /\ price.cents > 0 /\ price.cents < 100000
           THEN Step(1, <<Product(g[2], price.cents)>>)
           ELSE Step(1, <<>>)
    /\ UNCHANGED <<nameVars, aggVars, dirVars>>

TakeEuro ==
    /\ Reaches(2)
    /\ Pattern(2, CurrentLine).matched
    /\ LET g == Pattern(2, CurrentLine).groups
           price == parse_european_price(g[3])
       IN  IF price.ok /\ price.cents > 0 /\ price.cents < 100000
           THEN Step(2, <<Product(g[2], price.cents)>>)
           ELSE Step(2, <<>>)
    /\ UNCHANGED <<nameVars, aggVars, dirVars>>

TakeEuroSimple ==
    /\ Reaches(3)
    /\ Pattern(3, CurrentLine).matched
    /\ LET g == Pattern(3, CurrentLine).groups
           price == parse_european_price(g[2])
       IN  IF price.ok /\ price.cents > 0 /\ price.cents < 100000
           THEN Step(3, <<Product(g[1], price.cents)>>)
           ELSE Step(3, <<>>)
    /\ UNCHANGED <<nameVars, aggVars, dirVars>>

\* the fourth branch also tried after an earlier pattern's match was discarded
TakeDeSimple_AfterDiscard ==
    /\ parsePc = "lines"
    /\ lineNo <= Len(text)
    /\ ~LineTable[CurrentLine].short
    /\ ~LineTable[CurrentLine].noise
    /\ \A j \in 1..3 :
          IF Pattern(j, CurrentLine).matched
          THEN LET price == parse_european_price(Pattern(j, CurrentLine).groups[IF j = 3 THEN 2 ELSE 3])
               IN  ~(price.ok /\ price.cents > 0 /\ price.cents < 100000)
          ELSE TRUE
    /\ Pattern(4, CurrentLine).matched
    /\ LET g == Pattern(4, CurrentLine).groups
           price == parse_european_price(g[3])
       IN  IF price.ok /\ price.cents > 0 /\ price.cents < 100000
           THEN Step(4, <<Product(g[2], price.cents)>>)
           ELSE Step(4, <<>>)
    /\ UNCHANGED <<nameVars, aggVars, dirVars>>

TakeDeSimple ==
    /\ Reaches(4)
    /\ Pattern(4, CurrentLine).matched
    /\ LET g == Pattern(4, CurrentLine).groups
           price == parse_european_price(g[3])
       IN  IF price.ok /\ price.cents > 0 /\ price.cents < 100000
           THEN Step(4, <<Product(g[2], price.cents)>>)
           ELSE Step(4, <<>>)
    /\ UNCHANGED <<nameVars, aggVars, dirVars>>

TakeFallback ==
    /\ Reaches(5)
    /\ Pattern(5, CurrentLine).matched
    /\ LET g == Pattern(5, CurrentLine).groups
           price == parse_european_price(g[2])
           name_str == Trim(g[1])
       IN  IF /\ price.ok /\ price.cents > 0 /\ price.cents < 100000
              /\ Utf8Len(name_str) > 2
              /\ ~(\A i \in 1..Len(name_str) :
                      IsNumeric(name_str[i]) \/ name_str[i] \in {".", ",", "-"})
           THEN Step(5, <<Product(name_str, price.cents)>>)
           ELSE Step(5, <<>>)
    /\ UNCHANGED <<nameVars, aggVars, dirVars>>

NoPattern ==
    /\ Reaches(6)
    /\ Step(0, <<>>)
    /\ UNCHANGED <<nameVars, aggVars, dirVars>>

ParseReturn ==
    /\ parsePc = "lines"
    /\ lineNo > Len(text)
    /\ parsePc' = "returned"
    /\ UNCHANGED <<text, lineNo, products, last, nameVars, aggVars, dirVars>>

\* values of the variables of the functions that are not running
IdleParse == text = <<>> /\ lineNo = 1 /\ products = <<>>
             /\ last = [pattern |-> 0, pushed |-> 0] /\ parsePc = "idle"
IdleName  == rawName = <<>> /\ cleaned = <<>>
IdleAgg   == records = <<>> /\ aggIdx = 0 /\ aggregated = <<>> /\ assigned = <<>>
             /\ sorted = <<>> /\ aggPc = "idle"
IdleDir   == entries = <<>> /\ entryIdx = 1 /\ all_products = <<>>
             /\ diagnostics = <<>> /\ dirPc = "idle"

Init ==
    /\ text \in Texts
    /\ lineNo = 1
    /\ products = <<>>
    /\ last = [pattern |-> 0, pushed |-> 0]
    /\ parsePc = "lines"
    /\ IdleName /\ IdleAgg /\ IdleDir

Next ==
    \/ SkipShortLine
    \/ SkipNoiseLine
    \/ TakeQtyTotal
    \/ TakeEuro
    \/ TakeEuroSimple
    \/ TakeDeSimple
    \/ TakeFallback
    \/ NoPattern
    \/ ParseReturn

Spec == Init /\ [][Next]_vars

-----------------------------------------------------------------------------
(* clean_product_name, applied to a raw name and to its own result         *)

NameAlphabet == {"A", "b", "Ü", "ß", "7", " ", "\t", "U+00A0", "*", "-", "€"}

RECURSIVE StringsOfLen(_)
StringsOfLen(n) ==
    IF n = 0 THEN {<<>>}
    ELSE {Append(t, c) : t \in StringsOfLen(n - 1), c \in NameAlphabet}

RawNames == UNION {StringsOfLen(n) : n \in 0..MaxNameLen}
            \cup {<<"L", "ö", "w", "e", "n", "b", "r", "ä", "u", " ", "O", "r", "i", "g", "i", "n", "a", "l", "*">>}

InitName ==
    /\ rawName \in RawNames
    /\ cleaned = <<>>
    /\ IdleParse /\ IdleAgg /\ IdleDir

CleanName ==
    /\ Len(cleaned) = 0
    /\ cleaned' = <<clean_product_name(rawName)>>
    /\ UNCHANGED <<rawName, parseVars, aggVars, dirVars>>

CleanAgain ==
    /\ Len(cleaned) = 1
    /\ cleaned' = Append(cleaned, clean_product_name(cleaned[1]))
    /\ UNCHANGED <<rawName, parseVars, aggVars, dirVars>>

NextName == CleanName \/ CleanAgain

SpecName == InitName /\ [][NextName]_vars

-----------------------------------------------------------------------------
(* SkimMatcherV2::default().fuzzy_match(choice, pattern), the matcher of   *)
(* the fuzzy_matcher crate that aggregate_products calls: None unless the  *)
(* pattern is a subsequence of the choice, otherwise the best score of an  *)
(* alignment under the default score configuration.                        *)

score_match         == 16
gap_start           == 0 - 3
gap_extension       == 0 - 1
bonus_first_char_multiplier == 2
bonus_head          == score_match \div 2
bonus_break         == score_match \div 2 + gap_extension
bonus_consecutive   == 0 - (gap_start + gap_extension)
NoCell              == 0 - 10000     \* score of a cell no alignment reaches

IsWordChar(c) == IsAlphanumeric(c)

\* bonus of matching the choice character at position j
InPlaceBonus(choice, j) ==
    IF j = 1 THEN bonus_head * bonus_first_char_multiplier
    ELSE IF ~IsWordChar(choice[j - 1]) /\ IsWordChar(choice[j]) THEN bonus_break
    ELSE 0

Max2(a, b) == IF a >= b THEN a ELSE b

RECURSIVE IsSubsequence(_, _)
IsSubsequence(pattern, choice) ==
    IF Len(pattern) = 0 THEN TRUE
    ELSE IF Len(choice) = 0 THEN FALSE
    ELSE IF Head(pattern) = Head(choice) THEN IsSubsequence(Tail(pattern), Tail(choice))
    ELSE IsSubsequence(pattern, Tail(choice))

\* the element of a one-element set; {F(x) : x \in {e}} computes e once
Only(A) == CHOOSE x \in A : TRUE

\* row i of the score matrix from row i - 1; cells are indexed by column + 1
RECURSIVE ScoreRow(_, _, _, _)
ScoreRow(choice, p_ch, prevRow, row) ==
    LET j == Len(row)     \* next column
    IN  IF j > Len(choice) THEN row
        ELSE LET prev == prevRow[j]
                 left == row[j]
                 in_place == InPlaceBonus(choice, j)
                 consecutive == Max2(prev.b, Max2(in_place, bonus_consecutive))
                 viaMatch == prev.m + consecutive
                 viaSkip  == prev.p + in_place
                 matches  == choice[j] = p_ch /\ Max2(viaMatch, viaSkip) > NoCell \div 2
                 cell == [m |-> IF ~matches THEN NoCell
                                ELSE Max2(viaMatch, viaSkip) + score_match,
                          b |-> IF ~matches THEN 0
                                ELSE IF viaMatch >= viaSkip THEN consecutive ELSE in_place,
                          p |-> IF Max2(left.m, left.p) <= NoCell \div 2 THEN NoCell
                                ELSE Max2(gap_start + gap_extension + left.m,
                                          gap_extension + left.p)]
             IN  Only({ScoreRow(choice, p_ch, prevRow, next) : next \in {Append(row, cell)}})

RECURSIVE ScoreRows(_, _, _)
ScoreRows(choice, pattern, prevRow) ==
    IF Len(pattern) = 0 THEN prevRow
    ELSE Only({ScoreRows(choice, Tail(pattern), next) :
                  next \in {ScoreRow(choice, Head(pattern), prevRow,
                                     <<[m |-> NoCell, b |-> 0, p |-> NoCell]>>)}})

None == [some |-> FALSE, score |-> 0]
Some(n) == [some |-> TRUE, score |-> n]

fuzzy_match(choice, pattern) ==
    IF Len(pattern) = 0 THEN Some(0)
    ELSE IF ~IsSubsequence(pattern, choice) THEN None
    ELSE LET row0 == [j \in 1..(Len(choice) + 1) |-> [m |-> NoCell, b |-> 0, p |-> 0]]
             lastRow == ScoreRows(choice, pattern, row0)
         IN  Some(Max({lastRow[j].m : j \in 1..Len(lastRow)}))

-----------------------------------------------------------------------------
(* aggregate_products.  Two runs of the function over the same Records,    *)
(* the second started when the first has returned.  A HashMap is iterated  *)
(* in an order fixed by its per-instance random hash keys: every           *)
(* iteration takes an arbitrary enumeration of the keys.                   *)

Runs == {1, 2}

RECURSIVE Perms(_)
Perms(K) ==
    IF K = {} THEN {<<>>}
    ELSE UNION {{<<x>> \o q : q \in Perms(K \ {x})} : x \in K}

RECURSIVE RecordsOfLen(_, _)
RecordsOfLen(n, pool) ==
    IF n = 0 THEN {<<>>}
    ELSE {Append(t, r) : t \in RecordsOfLen(n - 1, pool), r \in pool}

AggNames  == { <<"a">>, <<"p", "o", "m", "m", "e", "s">>, <<"p", "o", "m", "m", "e", "s", " ", "r", "o", "t">>, <<"p", "o", "m", "m", "e", "s", " ", "w", "e", "i", "s", "s">> }
AggPrices == {119, 250}
AggPool   == {[name |-> n, price |-> c] : n \in AggNames, c \in AggPrices}

\* the aggregation scenario: a near-miss spelling, then a dissimilar name
ExampleRecords ==
    << [name |-> <<"c", "h", "e", "e", "s", "e", "b", "u", "r", "g", "e", "r">>, price |-> 119],
       [name |-> <<"c", "h", "e", "e", "s", "b", "u", "r", "g", "e", "r">>, price |-> 119],
       [name |-> <<"f", "r", "i", "e", "s">>, price |-> 250] >>

RecordInputs == UNION {RecordsOfLen(n, AggPool) : n \in 0..MaxRecords}
                \cup {ExampleRecords}

\* the scores of the names that occur, computed once
ScoreNames == AggNames \cup {ExampleRecords[i].name : i \in 1..3}
ScoreTable == [c \in ScoreNames |-> [q \in ScoreNames |-> fuzzy_match(c, q)]]
Score(choice, pattern) ==
    IF choice \in ScoreNames /\ pattern \in ScoreNames
    THEN ScoreTable[choice][pattern]
    ELSE fuzzy_match(choice, pattern)

NoBest == [found_match |-> FALSE, best_match_key |-> <<>>, best_score |-> 0]

\* for existing_key in aggregated.keys() { ... }
RECURSIVE ScanKeys(_, _, _)
ScanKeys(keys, name, best) ==
    IF Len(keys) = 0 THEN best
    ELSE LET score == Score(Head(keys), name)
         IN  ScanKeys(Tail(keys), name,
                 IF score.some /\ score.score > 80 /\ score.score > best.best_score
                 THEN [found_match |-> TRUE, best_match_key |-> Head(keys),
                       best_score |-> score.score]
                 ELSE best)

\* HashMap::insert: the value of an existing key is replaced
MapInsert(map, key, value) ==
    [k \in DOMAIN map \cup {key} |-> IF k = key THEN value ELSE map[k]]

\* the body of the loop over the products, the keys iterated in the order keys
Absorbed(map, product, keys) ==
    LET best == ScanKeys(keys, product.name, NoBest)
    IN  IF best.found_match
        THEN [map EXCEPT ![best.best_match_key] = @ + product.price]
        ELSE MapInsert(map, product.name, product.price)

\* sort_by(|a, b| b.1.partial_cmp(&a.1)): stable, descending by total
RECURSIVE SortDesc(_)
SortDesc(pairs) ==
    IF Len(pairs) = 0 THEN <<>>
    ELSE LET front == SortDesc(SubSeq(pairs, 1, Len(pairs) - 1))
             x     == pairs[Len(pairs)]
             n     == Cardinality({i \in 1..Len(front) : front[i][2] >= x[2]})
         IN  SubSeq(front, 1, n) \o <<x>> \o SubSeq(front, n + 1, Len(front))

\* aggregated.into_iter().collect() in the order keys, then sorted
Collected(map, keys) == SortDesc([i \in 1..Len(keys) |-> <<keys[i], map[keys[i]]>>])

EmptyMap == <<>>

InitAgg ==
    /\ records \in RecordInputs
    /\ aggIdx = [r \in Runs |-> 1]
    /\ aggregated = [r \in Runs |-> EmptyMap]
    /\ assigned = [r \in Runs |-> <<>>]
    /\ sorted = [r \in Runs |-> <<>>]
    /\ aggPc = [r \in Runs |-> "products"]
    /\ IdleParse /\ IdleName /\ IdleDir

Running(r) ==
    /\ aggPc[r] = "products"
    /\ r = 2 => aggPc[1] = "returned"

AbsorbMerge(r) ==
    /\ Running(r)
    /\ aggIdx[r] <= Len(records)
    /\ \E keys \in Perms(DOMAIN aggregated[r]) :
          LET product == records[aggIdx[r]]
              best == ScanKeys(keys, product.name, NoBest)
          IN  /\ best.found_match
              /\ aggregated' = [aggregated EXCEPT ![r] = Absorbed(aggregated[r], product, keys)]
              /\ assigned' = [assigned EXCEPT ![r] = Append(@, best.best_match_key)]
    /\ aggIdx' = [aggIdx EXCEPT ![r] = @ + 1]
    /\ UNCHANGED <<records, sorted, aggPc, parseVars, nameVars, dirVars>>

AbsorbInsert(r) ==
    /\ Running(r)
    /\ aggIdx[r] <= Len(records)
    /\ \E keys \in Perms(DOMAIN aggregated[r]) :
          LET product == records[aggIdx[r]]
              best == ScanKeys(keys, product.name, NoBest)
          IN  /\ ~best.found_match
              /\ aggregated' = [aggregated EXCEPT ![r] = Absorbed(aggregated[r], product, keys)]
              /\ assigned' = [assigned EXCEPT ![r] = Append(@, product.name)]
    /\ aggIdx' = [aggIdx EXCEPT ![r] = @ + 1]
    /\ UNCHANGED <<records, sorted, aggPc, parseVars, nameVars, dirVars>>

SortAndReturn(r) ==
    /\ Running(r)
    /\ aggIdx[r] > Len(records)
    /\ \E keys \in Perms(DOMAIN aggregated[r]) :
          sorted' = [sorted EXCEPT ![r] = Collected(aggregated[r], keys)]
    /\ aggPc' = [aggPc EXCEPT ![r] = "returned"]
    /\ UNCHANGED <<records, aggIdx, aggregated, assigned, parseVars, nameVars, dirVars>>

NextAgg ==
    \E r \in Runs : AbsorbMerge(r) \/ AbsorbInsert(r) \/ SortAndReturn(r)

SpecAgg == InitAgg /\ [][NextAgg]_vars

\* every result aggregate_products can return for the given products
RECURSIVE AggregatedMaps(_)
AggregatedMaps(prods) ==
    IF Len(prods) = 0 THEN {EmptyMap}
    ELSE UNION {{Absorbed(map, prods[Len(prods)], keys) : keys \in Perms(DOMAIN map)} :
                   map \in AggregatedMaps(SubSeq(prods, 1, Len(prods) - 1))}

aggregate_products(prods) ==
    UNION {{Collected(map, keys) : keys \in Perms(DOMAIN map)} : map \in AggregatedMaps(prods)}

\* display_results: the grand total and the number of products shown
RECURSIVE GrandTotal(_)
GrandTotal(pairs) ==
    IF Len(pairs) = 0 THEN 0 ELSE pairs[1][2] + GrandTotal(Tail(pairs))

-----------------------------------------------------------------------------
(* process_receipt_directory and extract_products_from_image.  An entry    *)
(* of the walk is an error or a path: its extension (none for <<>>),       *)
(* whether its file name is valid UTF-8, the call of the extraction that   *)
(* fails on it (if any) and the products its OCR text parses to.           *)

image_extensions == { <<"j", "p", "g">>, <<"j", "p", "e", "g">>, <<"p", "n", "g">>, <<"t", "i", "f", "f">>, <<"b", "m", "p">> }

FoundA == << [name |-> <<"c", "o", "l", "a">>, price |-> 200] >>
FoundB == << [name |-> <<"p", "o", "m", "m", "e", "s">>, price |-> 250], [name |-> <<"a">>, price |-> 119] >>

WalkErr == [kind |-> "error", ext |-> <<>>, utf8 |-> TRUE, fault |-> "none", found |-> <<>>]

EntryPool ==
    {WalkErr}
    \cup {[kind |-> "path", ext |-> e, utf8 |-> TRUE, fault |-> "none", found |-> <<>>] :
             e \in {<<>>, <<"t", "x", "t">>}}
    \cup {[kind |-> "path", ext |-> <<"P", "N", "G">>, utf8 |-> TRUE, fault |-> "none", found |-> FoundA]}
    \cup {[kind |-> "path", ext |-> <<"j", "p", "g">>, utf8 |-> u, fault |-> f, found |-> p] :
             u \in BOOLEAN, f \in {"none", "open", "save", "get_text"}, p \in {FoundA, FoundB}}

RECURSIVE WalksOfLen(_)
WalksOfLen(n) ==
    IF n = 0 THEN {<<>>}
    ELSE {Append(t, e) : t \in WalksOfLen(n - 1), e \in EntryPool}

InitDir ==
    /\ entries \in UNION {WalksOfLen(n) : n \in 0..MaxEntries}
    /\ entryIdx = 1
    /\ all_products = <<>>
    /\ diagnostics = <<>>
    /\ dirPc = "walking"
    /\ IdleParse /\ IdleName /\ IdleAgg

AtEntry == dirPc = "walking" /\ entryIdx <= Len(entries)
Entry   == entries[entryIdx]

\* if let Some(ext) = path.extension() { if image_extensions.contains(...) {
IsImage(e) == Len(e.ext) > 0 /\ ToLowercase(e.ext) \in image_extensions

\* entry.context("Failed to read directory entry")?
WalkFails ==
    /\ AtEntry
    /\ Entry.kind = "error"
    /\ dirPc' = "returned_err"
    /\ UNCHANGED <<entries, entryIdx, all_products, diagnostics, parseVars, nameVars, aggVars>>

NotAnImage ==
    /\ AtEntry
    /\ Entry.kind = "path"
    /\ ~IsImage(Entry)
    /\ entryIdx' = entryIdx + 1
    /\ UNCHANGED <<entries, all_products, diagnostics, dirPc, parseVars, nameVars, aggVars>>

\* image::open(image_path)? fails before the temporary path is built
ImageOpenFails ==
    /\ AtEntry
    /\ Entry.kind = "path"
    /\ IsImage(Entry)
    /\ Entry.fault = "open"
    /\ diagnostics' = Append(diagnostics, entryIdx)
    /\ entryIdx' = entryIdx + 1
    /\ UNCHANGED <<entries, all_products, dirPc, parseVars, nameVars, aggVars>>

\* image_path.file_name().unwrap().to_str().unwrap()
TempPathPanics ==
    /\ AtEntry
    /\ Entry.kind = "path"
    /\ IsImage(Entry)
    /\ Entry.fault # "open"
    /\ ~Entry.utf8
    /\ dirPc' = "panicked"
    /\ UNCHANGED <<entries, entryIdx, all_products, diagnostics, parseVars, nameVars, aggVars>>

\* processed_img.save(&temp_path)?, Tesseract::new(..)?.set_image(..)?, get_text()?
ImageFails ==
    /\ AtEntry
    /\ Entry.kind = "path"
    /\ IsImage(Entry)
    /\ Entry.utf8
    /\ Entry.fault \in {"save", "get_text"}
    /\ diagnostics' = Append(diagnostics, entryIdx)
    /\ entryIdx' = entryIdx + 1
    /\ UNCHANGED <<entries, all_products, dirPc, parseVars, nameVars, aggVars>>

ImageExtracted ==
    /\ AtEntry
    /\ Entry.kind = "path"
    /\ IsImage(Entry)
    /\ Entry.utf8
    /\ Entry.fault = "none"
    /\ all_products' = all_products \o Entry.found
    /\ entryIdx' = entryIdx + 1
    /\ UNCHANGED <<entries, diagnostics, dirPc, parseVars, nameVars, aggVars>>

WalkDone ==
    /\ dirPc = "walking"
    /\ entryIdx > Len(entries)
    /\ dirPc' = "returned_ok"
    /\ UNCHANGED <<entries, entryIdx, all_products, diagnostics, parseVars, nameVars, aggVars>>

NextDir ==
    \/ WalkFails
    \/ NotAnImage
    \/ ImageOpenFails
    \/ TempPathPanics
    \/ ImageFails
    \/ ImageExtracted
    \/ WalkDone

SpecDir == InitDir /\ [][NextDir]_vars

-----------------------------------------------------------------------------
(* Properties                                                              *)

RECURSIVE SumOver(_, _)
SumOver(I, f) ==      \* the sum of f[i] over the finite set I
    IF I = {} THEN 0
    ELSE LET i == CHOOSE x \in I : TRUE IN f[i] + SumOver(I \ {i}, f)

\* the line the last step of parse_receipt_text looked at
LastLine == Trim(text[lineNo - 1])
LineDone == parsePc = "lines" /\ lineNo > 1
MatchingPatterns(line) == {k \in 1..5 : Pattern(k, line).matched}
NameGroup(k)  == IF k \in {3, 5} THEN 1 ELSE 2
PriceGroup(k) == IF k \in {3, 5} THEN 2 ELSE 3
PriceValid(price_str) ==
    LET price == parse_european_price(price_str)
    IN  price.ok /\ price.cents > 0 /\ price.cents < 100000
Cascaded(line) == ~LineTable[line].short /\ ~LineTable[line].noise

\* C1: in every run of aggregate_products, every entry's total is the sum
\* of the prices of the Records assigned to it, every absorbed Record is
\* assigned to an entry of the mapping, and the totals add up to the sum of
\* the prices of the absorbed Records.
C1_TotalsAreSumsOfAssigned ==
    \A r \in Runs :
        aggPc[r] # "idle" =>
            LET n == Len(assigned[r])
                price == [i \in 1..n |-> records[i].price]
            IN  /\ \A i \in 1..n : assigned[r][i] \in DOMAIN aggregated[r]
                /\ \A k \in DOMAIN aggregated[r] :
                      aggregated[r][k] = SumOver({i \in 1..n : assigned[r][i] = k}, price)
                /\ SumOver(DOMAIN aggregated[r], aggregated[r]) = SumOver(1..n, price)

\* C2: a line "quantity name a unit-price total-price" yields exactly one
\* Record, priced at the total and named by the normalized product name
\* without the unit-price marker.
QtyTotalLines ==
    { [line |-> <<"4", "x", " ", "L", "ö", "w", "e", "n", "b", "r", "ä", "u", " ", "O", "r", "i", "g", "i", "n", "a", "l", " ", "a", " ", "3", ",", "0", "0", " ", "1", "2", ",", "0", "0">>,
       name |-> <<"l", "ö", "w", "e", "n", "b", "r", "ä", "u", " ", "o", "r", "i", "g", "i", "n", "a", "l">>, price |-> 1200],
      [line |-> <<"3", " ", "B", "i", "e", "r", " ", "a", " ", "2", ",", "5", "0", " ", "7", ",", "5", "0">>, name |-> <<"b", "i", "e", "r">>, price |-> 750] }

C2_QtyTotalLineRecord ==
    \A x \in QtyTotalLines :
        (LineDone /\ LastLine = x.line) =>
            /\ last.pushed = 1
            /\ products[Len(products)] = [name |-> x.name, price |-> x.price]

\* C3: whichever pattern matched the line, no Record is pushed when the
\* captured name, trimmed, has fewer than 3 characters or consists of
\* digits and punctuation only.
C3_ShortNameDiscarded ==
    (LineDone /\ last.pattern \in 1..5) =>
        LET name_str == Trim(Pattern(last.pattern, LastLine).groups[NameGroup(last.pattern)])
        IN  (\/ Len(name_str) < 3
             \/ \A i \in 1..Len(name_str) :
                   IsNumeric(name_str[i]) \/ name_str[i] \in {".", ",", "-"})
            => last.pushed = 0

\* C4: two runs of aggregate_products over the same Records in the same
\* order return the same sequence of (key, total) pairs.
C4_RunsAgree ==
    (aggPc[1] = "returned" /\ aggPc[2] = "returned") => sorted[1] = sorted[2]

\* C5: the walk never aborts on an image; it returns an error only at an
\* entry the enumeration failed on, and otherwise returns the Records of the
\* images whose extraction succeeded, in enumeration order, with one
\* diagnostic per other image.
RECURSIVE FoundUpTo(_)
FoundUpTo(n) ==
    IF n = 0 THEN <<>>
    ELSE FoundUpTo(n - 1)
         \o (IF entries[n].kind = "path" /\ IsImage(entries[n]) /\ entries[n].fault = "none"
             THEN entries[n].found ELSE <<>>)

C5_ImageFailureNeverAborts ==
    /\ dirPc # "panicked"
    /\ dirPc = "returned_err" => entries[entryIdx].kind = "error"
    /\ dirPc = "returned_ok" =>
          /\ all_products = FoundUpTo(Len(entries))
          /\ \A n \in 1..Len(entries) :
                (entries[n].kind = "path" /\ IsImage(entries[n]) /\ entries[n].fault # "none")
                <=> (\E d \in 1..Len(diagnostics) : diagnostics[d] = n)

\* C6: absorbing a Record adds its price to the existing entry of highest
\* score when some key scores above 80, keys unchanged, and otherwise
\* creates a new entry under the Record's name; the scenario yields
\* cheeseburger 2.38 and a separate fries 2.50.
AbsorbStep(r) == aggIdx'[r] = aggIdx[r] + 1

C6_AbsorbStepOk(r) ==
    LET product == records[aggIdx[r]]
        map     == aggregated[r]
        above   == {k \in DOMAIN map :
                       Score(k, product.name).some /\ Score(k, product.name).score > 80}
    IN  IF above # {}
        THEN \E k \in above :
                /\ \A j \in above : Score(j, product.name).score <= Score(k, product.name).score
                /\ aggregated'[r] = [map EXCEPT ![k] = @ + product.price]
        ELSE /\ product.name \notin DOMAIN map
             /\ DOMAIN aggregated'[r] = DOMAIN map \cup {product.name}
             /\ aggregated'[r][product.name] = product.price
             /\ \A k \in DOMAIN map : aggregated'[r][k] = map[k]

C6_Scenario ==
    (records = ExampleRecords /\ aggPc[1] = "returned") =>
        sorted[1] = << <<<<"f", "r", "i", "e", "s">>, 250>>, <<<<"c", "h", "e", "e", "s", "e", "b", "u", "r", "g", "e", "r">>, 238>> >>

C6_MergeAboveThresholdElseNewEntry ==
    [][(\A r \in Runs : AbsorbStep(r) => C6_AbsorbStepOk(r)) /\ C6_Scenario']_vars

\* C7: every Record pushed has a price above 0.00 and below 1000.00, and a
\* line whose matched price does not parse or lies outside that range
\* pushes no Record.
C7_PriceGate ==
    /\ \A i \in 1..Len(products) : products[i].price > 0 /\ products[i].price < 100000
    /\ (LineDone /\ last.pattern \in 1..5) =>
          (~PriceValid(Pattern(last.pattern, LastLine).groups[PriceGroup(last.pattern)])
             => last.pushed = 0)

C7_Witness ==
    /\ LineDone
    /\ products # <<>>
    /\ last.pattern \in 1..5
    /\ last.pushed = 0
    /\ Pattern(last.pattern, LastLine).groups[PriceGroup(last.pattern)]
          \in { <<"0", ",", "0", "0">>, <<"1", "5", "0", "0", ",", "0", "0">>, <<"1", "5", "0", "0", ".", "0", "0">>, <<"2", "5", "9", "8">>, <<"U+0663", ",", "0", "0">>, <<"1", "0", "0", "0", ",", "0", "0">> }

\* C8: a line that contains a boilerplate token or a percent sign, is made
\* of digits and whitespace only, or has fewer than 4 characters pushes no
\* Record; the three-line block yields (cheeseburger, 1.19), (pommes, 2.50)
\* and aggregates to two products with grand total 3.69.
NoiseLine(line) ==
    \/ \E tok \in SkipContains : Contains(ToLowercase(line), tok)
    \/ \A i \in 1..Len(line) : line[i] \in UnicodeDigit \cup WhiteSpace
    \/ Len(line) < 4

NoiseLines == {l \in {Trim(x) : x \in LineCorpus} : NoiseLine(l)}

C8_NoiseNeverPushes ==
    /\ (LineDone /\ LastLine \in NoiseLines) =>
          last.pushed = 0 /\ last.pattern = 0
    /\ (text = ExampleBlock /\ parsePc = "returned") =>
          /\ products = << [name |-> <<"c", "h", "e", "e", "s", "e", "b", "u", "r", "g", "e", "r">>, price |-> 119],
                           [name |-> <<"p", "o", "m", "m", "e", "s">>, price |-> 250] >>
          /\ \A out \in aggregate_products(products) :
                Len(out) = 2 /\ GrandTotal(out) = 369

C8_Witness ==
    /\ LineDone
    /\ products # <<>>
    /\ LastLine \in { <<"S", "u", "m", "m", "e", " ", "3", ",", "6", "9">>, <<"R", "a", "b", "a", "t", "t", " ", "1", "0", "%", " ", "1", ",", "0", "0">> }
    /\ MatchingPatterns(LastLine) # {}

\* C9: a line that reaches the cascade is handled by the lowest-numbered
\* pattern that matches it and by no other: at most one Record is pushed,
\* built from that pattern's captures, and none when that pattern's match
\* fails validation.
C9_FirstMatchingPatternOnly ==
    (LineDone /\ Cascaded(LastLine)) =>
        LET M == MatchingPatterns(LastLine)
        IN  IF M = {} THEN last.pattern = 0 /\ last.pushed = 0
            ELSE LET k == Min(M)
                     g == Pattern(k, LastLine).groups
                 IN  /\ last.pattern = k
                     /\ last.pushed <= 1
                     /\ ~PriceValid(g[PriceGroup(k)]) => last.pushed = 0
                     /\ last.pushed = 1 =>
                           products[Len(products)] =
                               [name |-> clean_product_name(g[NameGroup(k)]),
                                price |-> parse_european_price(g[PriceGroup(k)]).cents]

\* the first matching pattern's price is rejected, a later pattern matches
\* with a valid price
C9_Witness ==
    /\ LineDone
    /\ Cascaded(LastLine)
    /\ last.pushed = 0
    /\ \E k \in MatchingPatterns(LastLine), j \in MatchingPatterns(LastLine) :
          /\ k = Min(MatchingPatterns(LastLine))
          /\ j > k
          /\ ~PriceValid(Pattern(k, LastLine).groups[PriceGroup(k)])
          /\ PriceValid(Pattern(j, LastLine).groups[PriceGroup(j)])

\* C10: clean_product_name applied to its own result returns it unchanged;
\* the result is lower-case, made of alphanumeric characters and single
\* interior spaces, without leading or trailing whitespace.
WellFormedName(name) ==
    /\ \A i \in 1..Len(name) :
          /\ ToLowerChar(name[i]) = name[i]
          /\ name[i] \notin AsciiUpper \cup {"Ä", "Ö", "Ü"}
          /\ IsAlphanumeric(name[i]) \/ name[i] = " "
    /\ \A i \in 1..(Len(name) - 1) : ~(name[i] = " " /\ name[i + 1] = " ")
    /\ Len(name) > 0 => name[1] # " " /\ name[Len(name)] # " "

C10_CleanIdempotent ==
    /\ Len(cleaned) >= 1 => WellFormedName(cleaned[1])
    /\ Len(cleaned) = 2 => cleaned[2] = cleaned[1]
    /\ (Len(cleaned) >= 1 /\ rawName = <<"L", "ö", "w", "e", "n", "b", "r", "ä", "u", " ", "O", "r", "i", "g", "i", "n", "a", "l", "*">>) =>
          cleaned[1] = <<"l", "ö", "w", "e", "n", "b", "r", "ä", "u", " ", "o", "r", "i", "g", "i", "n", "a", "l">>

\* a raw name with symbols, capitals and a run of whitespace, cleaned twice
C10_Witness ==
    /\ Len(cleaned) = 2
    /\ cleaned[1] # rawName
    /\ \E i \in 1..Len(rawName) : rawName[i] \in {"*", "€", "-"}
    /\ \E i \in 1..Len(rawName) : IsWhitespace(rawName[i])
    /\ Len(cleaned[1]) > 0

=============================================================================
